---- MODULE Spec2Model ----
(***************************************************************************)
(* Model of the OTP verification core of samaasi/uptime-application:       *)
(*   pkg/otp (OTPService.Generate / Validate),                             *)
(*   the cache-backed otpRepository,                                       *)
(*   pkg/cache (Service.Set / Get / Delete, addJitter),                    *)
(*   internal/database RedisClient (as seen through its return values),    *)
(*   internal/api/services UserOTPManagerService.                          *)
(*                                                                         *)
(* Time is counted in units of 30 seconds, so that the 15 minute expiry    *)
(* window of a password-reset code is 30 units and the +-10% TTL jitter of *)
(* the cache service is two to three units.                                *)
(***************************************************************************)
EXTENDS Integers, Sequences, FiniteSets, TLC

VARIABLES
    now,          \* the wall clock (time.Now())
    store,        \* the keys of the remote store: key -> <<>> or <<[data, exp]>>
    pc,           \* position of each VerifyOTP caller
    args,         \* the arguments of the VerifyOTP call in progress
    otp,          \* storedOTP, the caller's in-memory copy of the record
    verr,         \* the error Validate returned to the caller
    last,         \* history: the most recent VerifyOTP return
    genCount,     \* history: number of GenerateAndSaveOTP calls that stored a record
    genExp,       \* history: expires_at of the record stored by the last generate
    verifiedOnce, \* history: a VerifyOTP returned success since the last generate
    exhausted,    \* history: a VerifyOTP returned too-many-attempts since then
    nSuccess,     \* history: number of VerifyOTP successes since the last generate
    lateExh,      \* history: the call in progress began after a too-many-attempts return
    genCode,      \* history: the code stored by the last generate
    wrongRun,     \* history: length of the run of wrong-code calls on a live record
    genOver,      \* history: key, code and replaced entry of the last generate that stored
    genFail,      \* history: the last GenerateAndSaveOTP that returned an error
    scene,        \* history: the VerifyOTP returns since the last generate, in order
    nCompared,    \* history: calls of Validate since the last generate that compared codes
    jDuration,    \* Service.Set: the duration argument
    jRand,        \* Service.Set: the value r.Float64() returns, in hundredths
    jResult,      \* Service.Set: <<the duration passed to cacheClient.Set>>, <<>> before
    cache,        \* the keys GetOrSet is called on: key -> <<>> or <<[data, exp]>>
    sfCall,       \* sfGroup.m: key -> <<>> or <<the caller whose call is in flight>>
    gpc,          \* position of each GetOrSet caller
    gerr,         \* err, what s.Get returned to the caller (line 116)
    gfetch,       \* fetchedVal and innerFetchErr of the caller that runs the flight
    gret,         \* the return of the caller's last GetOrSet: error and *dest
    fetchCount,   \* history: number of invocations of fetchFunc
    gCalls,       \* history: number of GetOrSet calls begun
    gClean,       \* history: no fetch or store call failed, nothing else touched the key
    circuitState,     \* RedisClient.circuitState
    failureCount,     \* RedisClient.failureCount
    sinceLastFailure, \* time.Since(c.lastFailureTime), in units of 10 s, up to timeout + 1
    readerCount,      \* c.mu: the number of read locks held according to the mutex
    crashed,          \* the runtime ended the process with a fatal error
    bpc,              \* position of each goroutine in a client operation
    healthy,          \* the network calls of the client succeed from now on
    consec,           \* history: failing calls completed since the last success
    blast,            \* history: the call completed last, the breaker state and the
                      \* counter it found
    berr,             \* goroutine -> err of its network call, Nil before the call
    requests,         \* RedisClient.metrics.requests
    errors,           \* RedisClient.metrics.errors
    hits,             \* RedisClient.metrics.hits
    misses,           \* RedisClient.metrics.misses
    latency,          \* RedisClient.metrics.latency, in units of 10 s
    sinceReset,       \* time.Since(c.metrics.lastResetTime), in units of 10 s, up to Minute + 1
    callsSince,       \* history: client calls completed since the last reset
    failedSince,      \* history: of these, the calls that returned an error other
                      \* than key-not-found
    uret              \* history: the last Service.Update: key, error, entry found

ovars == <<now, store, pc, args, otp, verr, last, genCount, genExp, verifiedOnce,
           exhausted, nSuccess, lateExh, genCode, wrongRun, genOver, genFail, scene,
           nCompared>>

jvars == <<jDuration, jRand, jResult>>

gvars == <<cache, sfCall, gpc, gerr, gfetch, gret, fetchCount, gCalls, gClean>>

bvars == <<circuitState, failureCount, sinceLastFailure, readerCount, crashed, bpc,
           healthy, consec, blast, berr>>

mvars == <<requests, errors, hits, misses, latency, sinceReset, callsSince, failedSince>>

uvars == <<uret>>

xvars == <<jvars, gvars, bvars, mvars, uvars>>

vars == <<ovars, xvars>>

----------------------------------------------------------------------------
(* Bounds of the model *)

MaxGen == 2
MaxGenConc == 1
MaxAttemptsIn == 4
MaxGenPairs == 3
MaxDuration == 40
MaxCalls == 3
MaxFailureCount == 7

\* the instants at which the clock is read: 0, the earliest instant at which the
\* TTL of a key set at 0 can elapse, and expires_at = 30 of a record generated at 0
\* with the two units after it
Instants == <<0, 27, 30, 31, 32>>

Procs == {"p1", "p2"}
Codes == {"111111", "222222"}
Identifiers == {"alice@example.com"}

\* values of r.Float64() in hundredths: 0.00, 0.50, 0.99
RandHundredths == {0, 50, 99}

----------------------------------------------------------------------------
(* Program constants *)

MaxAttempts == 3
ExpirationPasswordReset == 30
ExpirationEmailVerify == 60
ExpirationPhoneVerify == 30
JitterPermille == 100

OTPTypePasswordReset == "password_reset"
OTPTypeEmailVerification == "email_verification"
OTPTypePhoneVerification == "phone_verification"
OTPTypePasswordResetPhone == "password_reset_phone"
OTPTypePasswordResetEmail == "password_reset_email"

OTPTypes == {OTPTypePasswordReset, OTPTypeEmailVerification, OTPTypePhoneVerification,
             OTPTypePasswordResetPhone, OTPTypePasswordResetEmail}

ErrOTPNotFound == "OTP not found"
ErrOTPExpired == "OTP expired"
ErrOTPAlreadyUsed == "OTP already used"
ErrInvalidOTP == "invalid OTP code"
ErrTooManyAttempts == "too many OTP attempts"

Nil == "nil"
ErrKeyNotFound == "key not found in mock cache"
ErrStoreFailed == "redis operation failed"
ErrUpdateExpired == "otp expired"
ErrUnsupportedType == "unsupported otp type"

\* outcome of the network call of one client operation
NetOutcomes == {"ok", "unavailable"}

----------------------------------------------------------------------------
(* otpRepository.GenerateOTPKey *)

GenerateOTPKey(otpType, identifier) == <<"otp", otpType, identifier>>

Keys == {GenerateOTPKey(t, i) : t \in OTPTypes, i \in Identifiers}

----------------------------------------------------------------------------
(* encoding/json as used by the repository and the cache service *)

\* json.Marshal(*otp.OTP): the fields in declaration order
MarshalOTP(o) ==
    <<o.Code, o.Identifier, o.Type, o.ExpiresAt, o.Used, o.CreatedAt, o.Attempts>>

\* json.Unmarshal(data, &otp.OTP)
UnmarshalOTP(d) ==
    [Code |-> d[1], Identifier |-> d[2], Type |-> d[3], ExpiresAt |-> d[4],
     Used |-> d[5], CreatedAt |-> d[6], Attempts |-> d[7]]

\* json.Marshal of a []byte value in Service.Set: a quoted base64 string
MarshalBytes(b) == <<"base64", b>>

\* json.Unmarshal into *[]byte in Service.Get
UnmarshalBytes(d) == d[2]

----------------------------------------------------------------------------
(* RedisClient, by the result each call returns.  A call whose network     *)
(* outcome is not "ok" stands for every failure that is not redis.Nil:     *)
(* circuit breaker open, transport failure, timeout.                       *)

Trunc(n, d) == IF n >= 0 THEN n \div d ELSE -((-n) \div d)

ClientSet(st, key, data, duration, t, net) ==
    IF net = "ok"
    THEN [err |-> Nil, store |-> [st EXCEPT ![key] = <<[data |-> data, exp |-> t + duration]>>]]
    ELSE [err |-> ErrStoreFailed, store |-> st]

ClientGet(st, key, net) ==
    IF net # "ok" THEN [err |-> ErrStoreFailed, val |-> <<>>]
    ELSE IF st[key] = <<>> THEN [err |-> ErrKeyNotFound, val |-> <<>>]
    ELSE [err |-> Nil, val |-> st[key][1].data]

\* the expiry of a key that has no TTL: later than every instant of the clock
NoExpiry == 1000

\* SET key value KEEPTTL: the server sets the value whether or not the key
\* exists; an existing key keeps its TTL, a new key is created without TTL
ClientUpdate(st, key, data, net) ==
    IF net # "ok" THEN [err |-> ErrStoreFailed, store |-> st]
    ELSE [err |-> Nil,
          store |-> [st EXCEPT ![key] = <<[data |-> data,
                                           exp |-> IF st[key] = <<>> THEN NoExpiry
                                                   ELSE st[key][1].exp]>>]]

ClientDelete(st, key, net) ==
    IF net = "ok"
    THEN [err |-> Nil, store |-> [st EXCEPT ![key] = <<>>]]
    ELSE [err |-> ErrStoreFailed, store |-> st]

----------------------------------------------------------------------------
(* cache.Service *)

\* duration + time.Duration(float64(duration) * ((2 * percentage * r) - percentage))
\* with percentage in permille and r in hundredths
\* twice the percentage
addJitter_Double(duration, permille, r) ==
    IF duration <= 0 THEN duration
    ELSE duration + Trunc(duration * (4 * permille * r - 200 * permille), 100000)

addJitter(duration, permille, r) ==
    IF duration <= 0 THEN duration
    ELSE duration + Trunc(duration * (2 * permille * r - 100 * permille), 100000)

ServiceSet(st, key, value, duration, r, t, net) ==
    ClientSet(st, key, MarshalBytes(value), addJitter(duration, JitterPermille, r), t, net)

ServiceGet(st, key, net) ==
    LET g == ClientGet(st, key, net) IN
    IF g.err # Nil THEN [err |-> g.err, val |-> <<>>]
    ELSE [err |-> Nil, val |-> UnmarshalBytes(g.val)]

ServiceDelete(st, key, net) == ClientDelete(st, key, net)

ServiceUpdate(st, key, value, net) == ClientUpdate(st, key, MarshalBytes(value), net)

----------------------------------------------------------------------------
(* otpRepository *)

\* a record already stored for the pair is kept (SET NX)
SaveOTP_KeepExisting(st, o, ttl, r, t, net) ==
    IF st[GenerateOTPKey(o.Type, o.Identifier)] # <<>> THEN [err |-> Nil, store |-> st]
    ELSE ServiceSet(st, GenerateOTPKey(o.Type, o.Identifier), MarshalOTP(o), ttl, r, t, net)

SaveOTP(st, o, ttl, r, t, net) ==
    ServiceSet(st, GenerateOTPKey(o.Type, o.Identifier), MarshalOTP(o), ttl, r, t, net)

GetOTP(st, otpType, identifier, net) ==
    LET g == ServiceGet(st, GenerateOTPKey(otpType, identifier), net) IN
    IF g.err # Nil THEN [err |-> g.err, otp |-> <<>>]
    ELSE [err |-> Nil, otp |-> <<UnmarshalOTP(g.val)>>]

\* the record is written for the full expiry window of its purpose
UpdateOTP_FullWindow(st, o, r, t, net) ==
    ServiceSet(st, GenerateOTPKey(o.Type, o.Identifier), MarshalOTP(o),
               o.ExpiresAt - o.CreatedAt, r, t, net)

UpdateOTP(st, o, r, t, net) ==
    LET ttl == o.ExpiresAt - t IN
    IF ttl <= 0 THEN [err |-> ErrUpdateExpired, store |-> st]
    ELSE ServiceSet(st, GenerateOTPKey(o.Type, o.Identifier), MarshalOTP(o), ttl, r, t, net)

\* the record is left in place
DeleteOTP_Skipped(st, otpType, identifier, net) == [err |-> Nil, store |-> st]

DeleteOTP(st, otpType, identifier, net) ==
    ServiceDelete(st, GenerateOTPKey(otpType, identifier), net)

----------------------------------------------------------------------------
(* otp.OTPService *)

ExpirationOf(otpType) ==
    IF otpType = OTPTypePasswordReset THEN ExpirationPasswordReset
    ELSE IF otpType = OTPTypeEmailVerification THEN ExpirationEmailVerify
    ELSE IF otpType = OTPTypePhoneVerification THEN ExpirationPhoneVerify
    ELSE 0

\* the switch on the purpose has no default branch: ttl keeps its zero value
Generate_NoDefault(identifier, otpType, code, t) ==
    [err |-> Nil,
     otp |-> <<[Code |-> code, Identifier |-> identifier, Type |-> otpType,
                ExpiresAt |-> t + ExpirationOf(otpType), Used |-> FALSE,
                CreatedAt |-> t, Attempts |-> 0]>>,
     ttl |-> ExpirationOf(otpType)]

\* code is the value drawn by generateNumericOTP, t the value of time.Now()
Generate(identifier, otpType, code, t) ==
    IF otpType \notin {OTPTypePasswordReset, OTPTypeEmailVerification, OTPTypePhoneVerification}
    THEN [err |-> ErrUnsupportedType, otp |-> <<>>, ttl |-> 0]
    ELSE [err |-> Nil,
          otp |-> <<[Code |-> code, Identifier |-> identifier, Type |-> otpType,
                     ExpiresAt |-> t + ExpirationOf(otpType), Used |-> FALSE,
                     CreatedAt |-> t, Attempts |-> 0]>>,
          ttl |-> ExpirationOf(otpType)]

\* a grace period of one unit
After_Grace(t, u) == t > u + 1

\* now.After(otp.ExpiresAt)
After(t, u) == t > u

\* exhaustion tested with > after the increment
Validate_LateExhaust(o, code, t) ==
    IF t > o.ExpiresAt THEN [err |-> ErrOTPExpired, otp |-> o]
    ELSE IF o.Used THEN [err |-> ErrOTPAlreadyUsed, otp |-> o]
    ELSE IF o.Attempts >= MaxAttempts THEN [err |-> ErrTooManyAttempts, otp |-> o]
    ELSE IF o.Code # code
         THEN LET o2 == [o EXCEPT !.Attempts = @ + 1] IN
              IF o2.Attempts > MaxAttempts
              THEN [err |-> ErrTooManyAttempts, otp |-> o2]
              ELSE [err |-> ErrInvalidOTP, otp |-> o2]
    ELSE [err |-> Nil, otp |-> [o EXCEPT !.Attempts = @ + 1, !.Used = TRUE]]

\* a wrong code is not counted
Validate_NoCount(o, code, t) ==
    IF t > o.ExpiresAt THEN [err |-> ErrOTPExpired, otp |-> o]
    ELSE IF o.Used THEN [err |-> ErrOTPAlreadyUsed, otp |-> o]
    ELSE IF o.Attempts >= MaxAttempts THEN [err |-> ErrTooManyAttempts, otp |-> o]
    ELSE IF o.Code # code THEN [err |-> ErrInvalidOTP, otp |-> o]
    ELSE [err |-> Nil, otp |-> [o EXCEPT !.Attempts = @ + 1, !.Used = TRUE]]

\* the used check comes before the expiry check
Validate_UsedFirst(o, code, t) ==
    IF o.Used THEN [err |-> ErrOTPAlreadyUsed, otp |-> o]
    ELSE IF After(t, o.ExpiresAt) THEN [err |-> ErrOTPExpired, otp |-> o]
    ELSE IF o.Attempts >= MaxAttempts THEN [err |-> ErrTooManyAttempts, otp |-> o]
    ELSE IF o.Code # code
         THEN LET o2 == [o EXCEPT !.Attempts = @ + 1] IN
              IF o2.Attempts >= MaxAttempts
              THEN [err |-> ErrTooManyAttempts, otp |-> o2]
              ELSE [err |-> ErrInvalidOTP, otp |-> o2]
    ELSE [err |-> Nil, otp |-> [o EXCEPT !.Attempts = @ + 1, !.Used = TRUE]]

\* the last wrong code allowed is reported as invalid
Validate_LastInvalid(o, code, t) ==
    IF After(t, o.ExpiresAt) THEN [err |-> ErrOTPExpired, otp |-> o]
    ELSE IF o.Used THEN [err |-> ErrOTPAlreadyUsed, otp |-> o]
    ELSE IF o.Attempts >= MaxAttempts THEN [err |-> ErrTooManyAttempts, otp |-> o]
    ELSE IF o.Code # code
         THEN [err |-> ErrInvalidOTP, otp |-> [o EXCEPT !.Attempts = @ + 1]]
    ELSE [err |-> Nil, otp |-> [o EXCEPT !.Attempts = @ + 1, !.Used = TRUE]]

\* returns the error and the record as mutated in place
Validate(o, code, t) ==
    IF After(t, o.ExpiresAt) THEN [err |-> ErrOTPExpired, otp |-> o]
    ELSE IF o.Used THEN [err |-> ErrOTPAlreadyUsed, otp |-> o]
    ELSE IF o.Attempts >= MaxAttempts THEN [err |-> ErrTooManyAttempts, otp |-> o]
    ELSE IF o.Code # code
         THEN LET o2 == [o EXCEPT !.Attempts = @ + 1] IN
              IF o2.Attempts >= MaxAttempts
              THEN [err |-> ErrTooManyAttempts, otp |-> o2]
              ELSE [err |-> ErrInvalidOTP, otp |-> o2]
    ELSE [err |-> Nil, otp |-> [o EXCEPT !.Attempts = @ + 1, !.Used = TRUE]]

----------------------------------------------------------------------------
(* State *)

cvars == <<now, store, pc, args, otp, verr>>

NoArgs == [otpType |-> "", identifier |-> "", code |-> ""]
NoReturn == [ret |-> "none", key |-> <<>>, seq |-> 0]

Idle(ps) == \A q \in ps : pc[q] = "idle"

\* the key of the call in progress of p
ArgKey(p) == GenerateOTPKey(args[p].otpType, args[p].identifier)

\* the record stored under a key that is present
StoredOTP(st, k) == UnmarshalOTP(UnmarshalBytes(st[k][1].data))

InitStore == [k \in Keys |-> <<>>]

InitHistory ==
    /\ last = NoReturn
    /\ genCount = 0
    /\ genExp = 0
    /\ genCode = ""
    /\ verifiedOnce = FALSE
    /\ exhausted = FALSE
    /\ nSuccess = 0
    /\ lateExh = [p \in Procs |-> FALSE]
    /\ wrongRun = -1
    /\ genOver = <<>>
    /\ genFail = <<>>
    /\ scene = <<>>
    /\ nCompared = 0

----------------------------------------------------------------------------
(* RedisClient: the circuit breaker and the lock c.mu.  Every operation    *)
(* (Set, Get, Delete, Update, Increment, Decrement, HealthCheck) runs      *)
(* isCircuitOpen, then the network call or the short circuit, then         *)
(* recordMetrics and handleCircuitBreaker or resetCircuitBreaker.          *)
(*                                                                         *)
(* Breaker time is counted in units of 10 seconds.  A section of code that *)
(* holds c.mu.Lock() is one step, taken when the mutex counts no reader;   *)
(* the steps of isCircuitOpen are those between its lock operations.       *)

BProcs == {"g1", "g2"}

CircuitClosed == 0
CircuitOpen == 1
CircuitHalfOpen == 2

CircuitBreakerThreshold == 5
CircuitBreakerTimeout == 3

ErrCircuitOpen == "circuit breaker open"
RedisNil == "redis: nil"
ErrNetwork == "network error"

\* outcome of a network call of the client; redis.Nil is returned to Get only
RedisOutcomes == {Nil, RedisNil, ErrNetwork}

\* failureCount++, the counter being represented up to MaxFailureCount: the code
\* compares it with the threshold and with zero only
Incremented(n) == IF n < MaxFailureCount THEN n + 1 ELSE n

Breaker(state, count, since) ==
    [circuitState |-> state, failureCount |-> count, sinceLastFailure |-> since]

\* the state Half-Open is left with the counter as it is
handleCircuitBreaker_KeepCount(b, err) ==
    IF err = Nil \/ err = RedisNil THEN b
    ELSE IF b.circuitState = CircuitHalfOpen /\ Incremented(b.failureCount) > 0
         THEN Breaker(CircuitOpen, Incremented(b.failureCount), 0)
    ELSE IF b.circuitState = CircuitClosed
            /\ Incremented(b.failureCount) >= CircuitBreakerThreshold
         THEN Breaker(CircuitOpen, Incremented(b.failureCount), 0)
    ELSE Breaker(b.circuitState, Incremented(b.failureCount), 0)

\* the breaker opens when the counter exceeds the threshold
handleCircuitBreaker_Late(b, err) ==
    IF err = Nil \/ err = RedisNil THEN b
    ELSE IF b.circuitState = CircuitHalfOpen /\ Incremented(b.failureCount) > 0
         THEN Breaker(CircuitOpen, 0, 0)
    ELSE IF b.circuitState = CircuitClosed
            /\ Incremented(b.failureCount) > CircuitBreakerThreshold
         THEN Breaker(CircuitOpen, Incremented(b.failureCount), 0)
    ELSE Breaker(b.circuitState, Incremented(b.failureCount), 0)

\* handleCircuitBreaker(err) with the breaker enabled, between Lock and Unlock
handleCircuitBreaker(b, err) ==
    IF err = Nil \/ err = RedisNil THEN b
    ELSE IF b.circuitState = CircuitHalfOpen /\ Incremented(b.failureCount) > 0
         THEN Breaker(CircuitOpen, 0, 0)
    ELSE IF b.circuitState = CircuitClosed
            /\ Incremented(b.failureCount) >= CircuitBreakerThreshold
         THEN Breaker(CircuitOpen, Incremented(b.failureCount), 0)
    ELSE Breaker(b.circuitState, Incremented(b.failureCount), 0)

\* the counter is left as it is
resetCircuitBreaker_KeepCount(b) == Breaker(CircuitClosed, b.failureCount, b.sinceLastFailure)

\* resetCircuitBreaker() between Lock and Unlock
resetCircuitBreaker(b) == Breaker(CircuitClosed, 0, b.sinceLastFailure)

\* sync.RWMutex.RUnlock: the count after it and whether the runtime ends the
\* process with "sync: RUnlock of unlocked RWMutex"
RUnlock(n) == [readerCount |-> n - 1, fatal |-> n - 1 < 0]

NoCall == [ret |-> "none", from |-> CircuitClosed, count |-> 0, out |-> "none"]

InitBreaker ==
    /\ circuitState = CircuitClosed
    /\ failureCount = 0
    /\ sinceLastFailure = CircuitBreakerTimeout + 1
    /\ readerCount = 0
    /\ crashed = FALSE
    /\ bpc = [g \in BProcs |-> "idle"]
    /\ healthy = FALSE
    /\ consec = 0
    /\ blast = NoCall
    /\ berr = [g \in BProcs |-> Nil]

CurrentBreaker == Breaker(circuitState, failureCount, sinceLastFailure)

SetBreaker(b) ==
    /\ circuitState' = b.circuitState
    /\ failureCount' = b.failureCount
    /\ sinceLastFailure' = b.sinceLastFailure

\* isCircuitOpen, line 449: c.mu.RLock()
BeginCall(g) ==
    /\ ~crashed
    /\ bpc[g] = "idle"
    /\ bpc' = [bpc EXCEPT ![g] = "rlocked"]
    /\ readerCount' = readerCount + 1
    /\ UNCHANGED <<circuitState, failureCount, sinceLastFailure, crashed, healthy, consec,
                   blast, berr>>

\* isCircuitOpen, lines 452-465: the tests under the read lock, then the
\* RUnlock of line 454 or the return with the deferred RUnlock
CheckCircuit(g) ==
    /\ ~crashed
    /\ bpc[g] = "rlocked"
    /\ readerCount' = RUnlock(readerCount).readerCount
    /\ crashed' = RUnlock(readerCount).fatal
    /\ bpc' = [bpc EXCEPT ![g] =
                 IF circuitState = CircuitOpen
                 THEN IF sinceLastFailure > CircuitBreakerTimeout THEN "upgrade"
                      ELSE "shorted"
                 ELSE "admitted"]
    /\ UNCHANGED <<circuitState, failureCount, sinceLastFailure, healthy, consec, blast, berr>>

\* isCircuitOpen, lines 455-461: Lock, the move to Half-Open, return false and
\* the deferred Unlock
MoveToHalfOpen(g) ==
    /\ ~crashed
    /\ bpc[g] = "upgrade"
    /\ readerCount = 0
    /\ circuitState' = IF circuitState = CircuitOpen THEN CircuitHalfOpen ELSE circuitState
    /\ bpc' = [bpc EXCEPT ![g] = "unlocked"]
    /\ UNCHANGED <<failureCount, sinceLastFailure, readerCount, crashed, healthy, consec,
                   blast, berr>>

\* isCircuitOpen, line 450 after line 456: the deferred RUnlock of a read lock
\* that line 454 has released already
DeferredRUnlock(g) ==
    /\ ~crashed
    /\ bpc[g] = "unlocked"
    /\ readerCount' = RUnlock(readerCount).readerCount
    /\ crashed' = RUnlock(readerCount).fatal
    /\ bpc' = [bpc EXCEPT ![g] = "admitted"]
    /\ UNCHANGED <<circuitState, failureCount, sinceLastFailure, healthy, consec, blast, berr>>

\* redis.Nil is taken for a failure of the store
Branch_MissFails(out) == IF out = Nil THEN "succeeded" ELSE "failed"

\* the branch of Get that the error of the network call selects
Branch(out) ==
    IF out = Nil THEN "succeeded" ELSE IF out = RedisNil THEN "missed" ELSE "failed"

\* the message of the error Get returns at the end of each branch; the error
\* branch wraps the error of the network call or of the short circuit
GetReturn(branch) ==
    CASE branch = "succeeded" -> Nil
      [] branch = "missed" -> ErrKeyNotFound
      [] branch \in {"failed", "shorted"} -> ErrStoreFailed

\* the network call of an admitted operation
NetworkCall(g, out) ==
    /\ ~crashed
    /\ bpc[g] = "admitted"
    /\ healthy => out = Nil
    /\ bpc' = [bpc EXCEPT ![g] = Branch(out)]
    /\ berr' = [berr EXCEPT ![g] = out]
    /\ UNCHANGED <<circuitState, failureCount, sinceLastFailure, readerCount, crashed,
                   healthy, consec, blast>>

\* the error branch of an operation: recordMetrics and handleCircuitBreaker(err),
\* for the error of the network call and for the short circuit alike
CompleteFailed(g) ==
    /\ ~crashed
    /\ bpc[g] \in {"failed", "shorted"}
    /\ readerCount = 0
    /\ SetBreaker(handleCircuitBreaker(CurrentBreaker,
                                       IF bpc[g] = "shorted" THEN ErrCircuitOpen
                                       ELSE berr[g]))
    /\ bpc' = [bpc EXCEPT ![g] = "idle"]
    /\ consec' = IF consec < CircuitBreakerThreshold THEN consec + 1 ELSE consec
    /\ blast' = [ret |-> IF bpc[g] = "shorted" THEN ErrCircuitOpen ELSE berr[g],
                 from |-> circuitState, count |-> failureCount, out |-> GetReturn(bpc[g])]
    /\ berr' = [berr EXCEPT ![g] = Nil]
    /\ UNCHANGED <<readerCount, crashed, healthy>>

\* the success branch, and redis.Nil in Get: recordMetrics and resetCircuitBreaker()
CompleteSucceeded(g) ==
    /\ ~crashed
    /\ bpc[g] \in {"succeeded", "missed"}
    /\ readerCount = 0
    /\ SetBreaker(resetCircuitBreaker(CurrentBreaker))
    /\ bpc' = [bpc EXCEPT ![g] = "idle"]
    /\ consec' = 0
    /\ blast' = [ret |-> berr[g], from |-> circuitState, count |-> failureCount,
                 out |-> GetReturn(bpc[g])]
    /\ berr' = [berr EXCEPT ![g] = Nil]
    /\ UNCHANGED <<readerCount, crashed, healthy>>

\* ten seconds pass
BreakerTick ==
    /\ ~crashed
    /\ sinceLastFailure <= CircuitBreakerTimeout
    /\ sinceLastFailure' = sinceLastFailure + 1
    /\ UNCHANGED <<circuitState, failureCount, readerCount, crashed, bpc, healthy, consec,
                   blast, berr>>

\* the store recovers
Recover ==
    /\ ~crashed
    /\ ~healthy
    /\ healthy' = TRUE
    /\ UNCHANGED <<circuitState, failureCount, sinceLastFailure, readerCount, crashed, bpc,
                   consec, blast, berr>>

\* the OTP service and the cache service stand still
BreakerOnly == UNCHANGED <<ovars, jvars, gvars, mvars, uvars>>

NextBreaker ==
    \/ \E g \in BProcs : BeginCall(g) /\ BreakerOnly
    \/ \E g \in BProcs : CheckCircuit(g) /\ BreakerOnly
    \/ \E g \in BProcs : MoveToHalfOpen(g) /\ BreakerOnly
    \/ \E g \in BProcs : DeferredRUnlock(g) /\ BreakerOnly
    \/ \E g \in BProcs, out \in RedisOutcomes : NetworkCall(g, out) /\ BreakerOnly
    \/ \E g \in BProcs : CompleteFailed(g) /\ BreakerOnly
    \/ \E g \in BProcs : CompleteSucceeded(g) /\ BreakerOnly
    \/ BreakerTick /\ BreakerOnly
    \/ Recover /\ BreakerOnly

----------------------------------------------------------------------------
\* the callers of GetOrSet and the keys they name
GProcs == {"c1", "c2"}
CacheKeys == {"k"}

NoGet == [p \in GProcs |-> <<>>]
NoFetch == [err |-> <<>>, val |-> ""]
NoGetOrSetReturn == [err |-> <<>>, dest |-> "", n |-> 0]

InitMetrics ==
    /\ requests = 0
    /\ errors = 0
    /\ hits = 0
    /\ misses = 0
    /\ latency = 0
    /\ sinceReset = 0
    /\ callsSince = 0
    /\ failedSince = 0

InitNoGetOrSet ==
    /\ cache = [k \in CacheKeys |-> <<>>]
    /\ sfCall = [k \in CacheKeys |-> <<>>]
    /\ gpc = [p \in GProcs |-> "idle"]
    /\ gerr = NoGet
    /\ gfetch = [p \in GProcs |-> NoFetch]
    /\ gret = [p \in GProcs |-> NoGetOrSetReturn]
    /\ fetchCount = 0
    /\ gCalls = 0
    /\ gClean = TRUE

InitOTP ==
    /\ now = Instants[1]
    /\ store = InitStore
    /\ pc = [p \in Procs |-> "idle"]
    /\ args = [p \in Procs |-> NoArgs]
    /\ otp = [p \in Procs |-> <<>>]
    /\ verr = [p \in Procs |-> Nil]
    /\ InitHistory

\* no Service.Set in progress
NoUpdate == [key |-> <<>>, err |-> "none", before |-> <<>>, seq |-> 0]

InitNoUpdate == uret = NoUpdate

InitNoSet == jDuration = 0 /\ jRand = 0 /\ jResult = <<>>

Init == InitOTP /\ InitNoSet /\ InitNoGetOrSet /\ InitBreaker /\ InitMetrics /\ InitNoUpdate

----------------------------------------------------------------------------
(* UserOTPManagerService.GenerateAndSaveOTP *)

GenerateAndSaveOTPResult(st, otpType, identifier, code, r, t, net) ==
    LET g == Generate(identifier, otpType, code, t) IN
    IF g.err # Nil THEN [err |-> g.err, code |-> "", store |-> st, otp |-> <<>>]
    ELSE LET s == SaveOTP(st, g.otp[1], g.ttl, r, t, net) IN
         IF s.err # Nil THEN [err |-> s.err, code |-> "", store |-> st, otp |-> <<>>]
         ELSE [err |-> Nil, code |-> g.otp[1].Code, store |-> s.store, otp |-> g.otp]

GenerateAndSaveOTP(otpType, identifier, code, r, net) ==
    /\ store' = GenerateAndSaveOTPResult(store, otpType, identifier, code, r, now, net).store
    /\ UNCHANGED <<now, pc, args, otp, verr>>

----------------------------------------------------------------------------
(* UserOTPManagerService.VerifyOTP, one action per store call and one for  *)
(* the call of Validate between them.                                      *)

\* s.repo.GetOTP and the early return: any error of the load is reported as not found
VerifyLoad(p, otpType, identifier, code, net) ==
    /\ pc[p] = "idle"
    /\ LET g == GetOTP(store, otpType, identifier, net) IN
       IF g.err # Nil
       THEN UNCHANGED <<pc, args, otp>>
       ELSE /\ pc' = [pc EXCEPT ![p] = "loaded"]
            /\ args' = [args EXCEPT ![p] = [otpType |-> otpType, identifier |-> identifier,
                                             code |-> code]]
            /\ otp' = [otp EXCEPT ![p] = g.otp]
    /\ UNCHANGED <<now, store, verr>>

\* what VerifyLoad returns to the caller of VerifyOTP, "" when the call goes on
LoadRet(otpType, identifier, net) ==
    IF GetOTP(store, otpType, identifier, net).err # Nil THEN ErrOTPNotFound ELSE ""

\* s.secSvc.Validate(storedOTP, code)
VerifyValidate(p) ==
    /\ pc[p] = "loaded"
    /\ LET v == Validate(otp[p][1], args[p].code, now) IN
       /\ otp' = [otp EXCEPT ![p] = <<v.otp>>]
       /\ verr' = [verr EXCEPT ![p] = v.err]
    /\ pc' = [pc EXCEPT ![p] = "validated"]
    /\ UNCHANGED <<now, store, args>>

\* a successful verification persists the validated record instead of deleting it
VerifyFinish_Persist(p, r, net) ==
    /\ pc[p] = "validated"
    /\ LET o == otp[p][1]
           a == args[p]
       IN
       store' = IF verr[p] \in {ErrInvalidOTP, Nil} THEN UpdateOTP(store, o, r, now, net).store
                ELSE IF verr[p] = ErrOTPAlreadyUsed THEN store
                ELSE DeleteOTP(store, a.otpType, a.identifier, net).store
    /\ pc' = [pc EXCEPT ![p] = "idle"]
    /\ args' = [args EXCEPT ![p] = NoArgs]
    /\ otp' = [otp EXCEPT ![p] = <<>>]
    /\ verr' = [verr EXCEPT ![p] = Nil]
    /\ UNCHANGED now

\* the switch on the error of Validate: the store call of the branch and the return
VerifyFinish(p, r, net) ==
    /\ pc[p] = "validated"
    /\ LET o == otp[p][1]
           a == args[p]
       IN
       store' = IF verr[p] = ErrInvalidOTP THEN UpdateOTP(store, o, r, now, net).store
                ELSE IF verr[p] = ErrOTPAlreadyUsed THEN store
                ELSE DeleteOTP(store, a.otpType, a.identifier, net).store
    /\ pc' = [pc EXCEPT ![p] = "idle"]
    /\ args' = [args EXCEPT ![p] = NoArgs]
    /\ otp' = [otp EXCEPT ![p] = <<>>]
    /\ verr' = [verr EXCEPT ![p] = Nil]
    /\ UNCHANGED now

\* what VerifyFinish returns to the caller of VerifyOTP
FinishRet(p) == IF verr[p] = Nil THEN "success" ELSE verr[p]

----------------------------------------------------------------------------
(* The clock advances to the next instant; the store drops the keys whose  *)
(* TTL has elapsed.                                                        *)

Expire(st, t) == [k \in Keys |-> IF st[k] # <<>> /\ st[k][1].exp <= t THEN <<>> ELSE st[k]]

NextInstant ==
    LET later == {i \in 1..Len(Instants) : Instants[i] > now} IN
    IF later = {} THEN now ELSE Instants[CHOOSE i \in later : \A j \in later : i <= j]

Tick ==
    /\ NextInstant > now
    /\ now' = NextInstant
    /\ store' = Expire(store, NextInstant)
    /\ UNCHANGED <<pc, args, otp, verr>>

----------------------------------------------------------------------------
(* History variables.  T is the set of histories a specification keeps;    *)
(* the others stay at their initial values.                                *)
(*   "ver"  verifiedOnce                                                   *)
(*   "exh"  exhausted, lateExh                                             *)
(*   "succ" nSuccess                                                       *)
(*   "run"  wrongRun, genExp, genCode: wrongRun counts the calls of an     *)
(*          uninterrupted run of sequential calls that presented a code    *)
(*          other than the generated one before expires_at and before the  *)
(*          TTL of the key elapsed; -1 when the run is broken.             *)

HistReturn(T, p, r, key, code) ==
    /\ last' = [ret |-> r, key |-> key, seq |-> 1 - last.seq]
    /\ verifiedOnce' = IF "ver" \in T THEN (verifiedOnce \/ r = "success") ELSE verifiedOnce
    /\ exhausted' = IF "exh" \in T THEN (exhausted \/ r = ErrTooManyAttempts) ELSE exhausted
    /\ lateExh' = [lateExh EXCEPT ![p] = FALSE]
    /\ nSuccess' = IF "succ" \in T /\ r = "success" /\ nSuccess < 2 THEN nSuccess + 1
                   ELSE nSuccess
    /\ wrongRun' = IF "run" \in T /\ wrongRun \in 0..2 /\ code # genCode /\ now < genExp
                      /\ Idle(Procs \ {p})
                   THEN wrongRun + 1 ELSE -1
    /\ UNCHANGED <<genCount, genExp, genCode>>

HistLoad(T, p) ==
    /\ lateExh' = IF "exh" \in T THEN [lateExh EXCEPT ![p] = exhausted] ELSE lateExh
    /\ wrongRun' = IF Idle(Procs \ {p}) THEN wrongRun ELSE -1
    /\ UNCHANGED <<last, genCount, genExp, genCode, verifiedOnce, exhausted, nSuccess>>

HistGenerate(T, res) ==
    IF res.err # Nil
    THEN UNCHANGED <<last, genCount, genExp, genCode, verifiedOnce, exhausted, nSuccess,
                     lateExh, wrongRun>>
    ELSE /\ genCount' = genCount + 1
         /\ genExp' = IF "run" \in T THEN res.otp[1].ExpiresAt ELSE genExp
         /\ genCode' = IF "run" \in T THEN res.code ELSE genCode
         /\ verifiedOnce' = FALSE
         /\ exhausted' = FALSE
         /\ nSuccess' = 0
         /\ lateExh' = [p \in Procs |-> FALSE]
         /\ wrongRun' = IF "run" \in T /\ Idle(Procs) THEN 0 ELSE -1
         /\ UNCHANGED last

HistTick(T) ==
    /\ wrongRun' = IF wrongRun \in 0..2 /\ (NextInstant >= genExp \/ Expire(store, NextInstant) # store)
                   THEN -1 ELSE wrongRun
    /\ UNCHANGED <<last, genCount, genExp, genCode, verifiedOnce, exhausted, nSuccess, lateExh>>

HistNone ==
    UNCHANGED <<last, genCount, genExp, genCode, verifiedOnce, exhausted, nSuccess, lateExh,
                wrongRun>>

\* the number of VerifyOTP returns that scene keeps
MaxScene == 3

\* Validate compares the presented code when it has incremented Attempts
Compared(o, code, t) == Validate(o, code, t).otp.Attempts > o.Attempts

\* one VerifyOTP return: whether the presented code differs from the generated
\* one, what the call returns, the attempts of the record the call leaves in the
\* store (-1 for none), and the record Validate left with the caller
SceneEntry(code, r, key, validated) ==
    [wrong |-> code # genCode,
     ret |-> r,
     stored |-> IF store'[key] = <<>> THEN -1 ELSE StoredOTP(store', key).Attempts,
     attempts |-> IF validated = <<>> THEN -1 ELSE validated[1].Attempts,
     used |-> IF validated = <<>> THEN FALSE ELSE validated[1].Used]

(*   "scene" scene: emptied by a generate that stored, extended by a return *)
(*   "cmp"   nCompared: zeroed by a generate that stored, raised by a       *)
(*           Validate that compared codes, up to MaxAttempts + 1            *)
HistCalls(T, generated, entry, compared) ==
    /\ scene' = IF "scene" \notin T THEN scene
                ELSE IF generated THEN <<>>
                ELSE IF entry # <<>> /\ Len(scene) < MaxScene THEN Append(scene, entry[1])
                ELSE scene
    /\ nCompared' = IF "cmp" \notin T THEN nCompared
                    ELSE IF generated THEN 0
                    ELSE IF compared /\ nCompared <= MaxAttempts THEN nCompared + 1
                    ELSE nCompared

----------------------------------------------------------------------------
(* Specifications: callers ps, network outcomes nets of the store calls,   *)
(* one call at a time when sequential.                                     *)

Step(T, ps, nets, sequential, maxGen) ==
    \/ \E i \in Identifiers, c \in Codes, r \in RandHundredths, net \in nets :
          /\ genCount < maxGen
          /\ sequential => Idle(Procs)
          /\ GenerateAndSaveOTP(OTPTypePasswordReset, i, c, r, net)
          /\ HistGenerate(T, GenerateAndSaveOTPResult(store, OTPTypePasswordReset, i, c, r,
                                                      now, net))
          /\ HistCalls(T, GenerateAndSaveOTPResult(store, OTPTypePasswordReset, i, c, r,
                                                   now, net).err = Nil, <<>>, FALSE)
          /\ UNCHANGED <<genOver, genFail, xvars>>
    \/ \E p \in ps, i \in Identifiers, c \in Codes, net \in nets :
          /\ VerifyLoad(p, OTPTypePasswordReset, i, c, net)
          /\ IF LoadRet(OTPTypePasswordReset, i, net) = ""
             THEN HistLoad(T, p) /\ HistCalls(T, FALSE, <<>>, FALSE)
             ELSE /\ HistReturn(T, p, LoadRet(OTPTypePasswordReset, i, net),
                                GenerateOTPKey(OTPTypePasswordReset, i), c)
                  /\ HistCalls(T, FALSE,
                               <<SceneEntry(c, LoadRet(OTPTypePasswordReset, i, net),
                                            GenerateOTPKey(OTPTypePasswordReset, i), <<>>)>>,
                               FALSE)
          /\ UNCHANGED <<genOver, genFail, xvars>>
    \/ \E p \in ps :
          /\ VerifyValidate(p)
          /\ HistNone
          /\ HistCalls(T, FALSE, <<>>, Compared(otp[p][1], args[p].code, now))
          /\ UNCHANGED <<genOver, genFail, xvars>>
    \/ \E p \in ps, r \in RandHundredths, net \in nets :
          /\ VerifyFinish(p, r, net)
          /\ HistReturn(T, p, FinishRet(p), ArgKey(p), args[p].code)
          /\ HistCalls(T, FALSE, <<SceneEntry(args[p].code, FinishRet(p), ArgKey(p), otp[p])>>,
                       FALSE)
          /\ UNCHANGED <<genOver, genFail, xvars>>
    \/ Tick /\ HistTick(T) /\ HistCalls(T, FALSE, <<>>, FALSE)
            /\ UNCHANGED <<genOver, genFail, xvars>>

\* concurrent callers, every store call may fail
Next == Step({"exh"}, Procs, NetOutcomes, FALSE, MaxGenConc)

Spec == Init /\ [][Next]_vars

\* concurrent callers, every store call succeeds
NextReliable == Step({"succ"}, Procs, {"ok"}, FALSE, MaxGenConc)

SpecReliable == Init /\ [][NextReliable]_vars

\* one caller, whose calls overlap with GenerateAndSaveOTP; every store call may fail
NextFaulty == Step({"succ"}, {"p1"}, NetOutcomes, FALSE, MaxGenConc)

SpecFaulty == Init /\ [][NextFaulty]_vars

\* one caller at a time, every store call succeeds
NextSeq == Step({"ver", "run"}, {"p1"}, {"ok"}, TRUE, MaxGen)

SpecSeq == Init /\ [][NextSeq]_vars

\* Validate alone, on every record and presented code of a bounded set
ValidateRecords ==
    [Code : Codes, Identifier : Identifiers, Type : {OTPTypePasswordReset},
     ExpiresAt : {30, 31}, Used : BOOLEAN, CreatedAt : {0}, Attempts : 0..MaxAttemptsIn]

InitValidate ==
    /\ now \in {Instants[i] : i \in 1..Len(Instants)}
    /\ store = InitStore
    /\ pc = [p \in Procs |-> IF p = "p1" THEN "loaded" ELSE "idle"]
    /\ \E o \in ValidateRecords, c \in Codes :
          /\ otp = [p \in Procs |-> IF p = "p1" THEN <<o>> ELSE <<>>]
          /\ args = [p \in Procs |-> IF p = "p1"
                                     THEN [otpType |-> o.Type, identifier |-> o.Identifier,
                                           code |-> c]
                                     ELSE NoArgs]
    /\ verr = [p \in Procs |-> Nil]
    /\ InitHistory
    /\ InitNoSet
    /\ InitNoGetOrSet
    /\ InitBreaker
    /\ InitMetrics
    /\ InitNoUpdate

NextValidate ==
    VerifyValidate("p1") /\ HistNone /\ UNCHANGED <<genOver, genFail, scene, nCompared, xvars>>

SpecValidate == InitValidate /\ [][NextValidate]_vars

\* one caller at a time and within one instant, every store call succeeds; codes
\* are generated for every purpose the caller can name and those of VerifyTypes
\* are also verified
VerifyTypes == {OTPTypePasswordReset}

HistOver(res, key) ==
    genOver' = IF res.err # Nil THEN genOver
               ELSE <<[key |-> key, before |-> store[key], code |-> res.code]>>

StepPairs ==
    \/ \E t \in OTPTypes, i \in Identifiers, c \in Codes, r \in RandHundredths :
          /\ genCount < MaxGenPairs
          /\ Idle(Procs)
          /\ GenerateAndSaveOTP(t, i, c, r, "ok")
          /\ HistGenerate({}, GenerateAndSaveOTPResult(store, t, i, c, r, now, "ok"))
          /\ HistOver(GenerateAndSaveOTPResult(store, t, i, c, r, now, "ok"),
                      GenerateOTPKey(t, i))
          /\ UNCHANGED <<genFail, scene, nCompared, xvars>>
    \/ \E t \in VerifyTypes, i \in Identifiers, c \in Codes :
          /\ VerifyLoad("p1", t, i, c, "ok")
          /\ IF LoadRet(t, i, "ok") = ""
             THEN HistLoad({}, "p1")
             ELSE HistReturn({}, "p1", LoadRet(t, i, "ok"), GenerateOTPKey(t, i), c)
          /\ UNCHANGED <<genOver, genFail, scene, nCompared, xvars>>
    \/ VerifyValidate("p1") /\ HistNone /\ UNCHANGED <<genOver, genFail, scene, nCompared, xvars>>
    \/ \E r \in RandHundredths :
          /\ VerifyFinish("p1", r, "ok")
          /\ HistReturn({}, "p1", FinishRet("p1"), ArgKey("p1"), args["p1"].code)
          /\ UNCHANGED <<genOver, genFail, scene, nCompared, xvars>>

NextPairs == StepPairs

SpecPairs == Init /\ [][NextPairs]_vars

\* one caller at a time and within one instant, every store call succeeds; codes
\* are requested for every purpose the caller can name, and the requests that
\* return an error are recorded together with what they found and left in the store
HistFail(res, otpType) ==
    genFail' = IF res.err = Nil THEN genFail
               ELSE <<[otpType |-> otpType, err |-> res.err, code |-> res.code,
                       same |-> store' = store,
                       had |-> \E k \in Keys : store[k] # <<>>]>>

NextPurpose ==
    \/ \E t \in OTPTypes, i \in Identifiers, c \in Codes, r \in RandHundredths :
          /\ genCount < MaxGen
          /\ Idle(Procs)
          /\ GenerateAndSaveOTP(t, i, c, r, "ok")
          /\ HistGenerate({}, GenerateAndSaveOTPResult(store, t, i, c, r, now, "ok"))
          /\ HistOver(GenerateAndSaveOTPResult(store, t, i, c, r, now, "ok"),
                      GenerateOTPKey(t, i))
          /\ HistFail(GenerateAndSaveOTPResult(store, t, i, c, r, now, "ok"), t)
          /\ UNCHANGED <<scene, nCompared, xvars>>
    \/ \E t \in VerifyTypes, i \in Identifiers, c \in Codes :
          /\ VerifyLoad("p1", t, i, c, "ok")
          /\ IF LoadRet(t, i, "ok") = ""
             THEN HistLoad({}, "p1")
             ELSE HistReturn({}, "p1", LoadRet(t, i, "ok"), GenerateOTPKey(t, i), c)
          /\ UNCHANGED <<genOver, genFail, scene, nCompared, xvars>>
    \/ VerifyValidate("p1") /\ HistNone
          /\ UNCHANGED <<genOver, genFail, scene, nCompared, xvars>>
    \/ \E r \in RandHundredths :
          /\ VerifyFinish("p1", r, "ok")
          /\ HistReturn({}, "p1", FinishRet("p1"), ArgKey("p1"), args["p1"].code)
          /\ UNCHANGED <<genOver, genFail, scene, nCompared, xvars>>

SpecPurpose == Init /\ [][NextPurpose]_vars

\* concurrent callers, every store call succeeds, the comparisons are counted
NextCompared == Step({"cmp"}, Procs, {"ok"}, FALSE, MaxGenConc)

SpecCompared == Init /\ [][NextCompared]_vars

\* one caller at a time, every store call succeeds, the returns are recorded
NextScenario == Step({"run", "scene"}, {"p1"}, {"ok"}, TRUE, MaxGenConc)

SpecScenario == Init /\ [][NextScenario]_vars

----------------------------------------------------------------------------
(* cache.Service.Update and Set on a key of the store                       *)

UpdateKeys == {GenerateOTPKey(OTPTypePasswordReset, i) : i \in Identifiers}

UpdateValues == {"a", "b"}

UpdateOnly ==
    /\ HistNone
    /\ UNCHANGED <<pc, args, otp, verr, genOver, genFail, scene, nCompared,
                   jvars, gvars, bvars, mvars>>

\* Service.Set(key, value, ExpirationPasswordReset)
SetForUpdate(key, value, r, net) ==
    /\ store' = ServiceSet(store, key, value, ExpirationPasswordReset, r, now, net).store
    /\ UNCHANGED <<now, uret>>

\* Service.Update(key, value)
Update(key, value, net) ==
    /\ store' = ServiceUpdate(store, key, value, net).store
    /\ uret' = [key |-> key, err |-> ServiceUpdate(store, key, value, net).err,
                before |-> store[key], seq |-> 1 - uret.seq]
    /\ UNCHANGED now

NextUpdate ==
    \/ \E key \in UpdateKeys, v \in UpdateValues, r \in RandHundredths, net \in NetOutcomes :
          SetForUpdate(key, v, r, net) /\ UpdateOnly
    \/ \E key \in UpdateKeys, v \in UpdateValues, net \in NetOutcomes :
          Update(key, v, net) /\ UpdateOnly
    \/ Tick /\ UNCHANGED uret /\ UpdateOnly

SpecUpdate == Init /\ [][NextUpdate]_vars

----------------------------------------------------------------------------
(* RedisClient.recordMetrics.  Every client operation calls it once, with   *)
(* the tag of the branch it ends in.  Time is counted in units of 10 s.     *)

\* the bound on the calls between two resets
MaxRequests == 4

OpKinds == {"Set", "Get", "Delete", "Update", "Increment", "Decrement", "HealthCheck"}

\* how a call ends: success, redis.Nil (Get only), any other error
CallEnds == {"ok", "miss", "error"}

\* the values of time.Since(start)
Latencies == {0, 1}

\* the requests after which the counters are logged and reset
ResetEvery == 1000

\* time.Minute
Minute == 6

\* the op argument the operation passes to recordMetrics
Tag(kind, end) ==
    <<kind, IF end = "error" THEN "Error"
            ELSE IF kind = "Get" THEN (IF end = "miss" THEN "Miss" ELSE "Hit")
            ELSE "Success">>

Metrics(r, e, h, m, l, since) ==
    [requests |-> r, errors |-> e, hits |-> h, misses |-> m, latency |-> l,
     sinceReset |-> since, reset |-> FALSE]

\* recordMetrics(latency, op) between Lock and Unlock
recordMetrics(mt, lat, op) ==
    LET r == mt.requests + 1
        l == mt.latency + lat
        h == IF op = <<"Get", "Hit">> THEN mt.hits + 1 ELSE mt.hits
        m == IF op = <<"Get", "Miss">> THEN mt.misses + 1 ELSE mt.misses
        e == IF op \in {<<"Set", "Error">>, <<"Get", "Error">>, <<"Delete", "Error">>,
                        <<"Update", "Error">>, <<"HealthCheck", "Error">>}
             THEN mt.errors + 1 ELSE mt.errors
    IN IF r % ResetEvery = 0 \/ mt.sinceReset > Minute
       THEN [Metrics(0, 0, 0, 0, 0, 0) EXCEPT !.reset = TRUE]
       ELSE Metrics(r, e, h, m, l, mt.sinceReset)

\* a client operation of the given kind ends and records its metrics
RecordCall(kind, end, lat) ==
    /\ end = "miss" => kind = "Get"
    /\ requests < MaxRequests
    /\ LET mt == recordMetrics(Metrics(requests, errors, hits, misses, latency, sinceReset),
                               lat, Tag(kind, end))
       IN /\ requests' = mt.requests
          /\ errors' = mt.errors
          /\ hits' = mt.hits
          /\ misses' = mt.misses
          /\ latency' = mt.latency
          /\ sinceReset' = mt.sinceReset
          /\ callsSince' = IF mt.reset THEN 0 ELSE callsSince + 1
          /\ failedSince' = IF mt.reset THEN 0
                            ELSE IF end = "error" THEN failedSince + 1 ELSE failedSince

\* ten seconds pass
MetricsTick ==
    /\ sinceReset <= Minute
    /\ sinceReset' = sinceReset + 1
    /\ UNCHANGED <<requests, errors, hits, misses, latency, callsSince, failedSince>>

MetricsOnly == UNCHANGED <<ovars, jvars, gvars, bvars, uvars>>

NextMetrics ==
    \/ \E kind \in OpKinds, end \in CallEnds, lat \in Latencies :
          RecordCall(kind, end, lat) /\ MetricsOnly
    \/ MetricsTick /\ MetricsOnly

----------------------------------------------------------------------------
(* cache.Service.GetOrSet.  Error texts and payloads are sequences of      *)
(* characters, so that the prefix test of Get (line 58) and the comparison *)
(* of line 121 are computed on them as the code computes them.             *)

\* the values fetchFunc returns and the texts of the errors it returns
FetchValues == {"v1", "v2"}
FetchErrors == {<<"d", "b", " ", "d", "o", "w", "n">>}

\* the duration argument of the GetOrSet calls, five minutes
GetOrSetDuration == 10

cachedErrorPrefix == <<"E", "R", "R", ":">>
cachedErrorTTL == 2

\* "cached error:", the literal whose length line 121 takes
StrCachedErrorColon ==
    <<"c", "a", "c", "h", "e", "d", " ", "e", "r", "r", "o", "r", ":">>

\* fmt.Sprintf("cached error: %s", msg)
SprintfCachedError(msg) == StrCachedErrorColon \o <<" ">> \o msg

StrKeyNotFound ==
    <<"k", "e", "y", " ", "n", "o", "t", " ", "f", "o", "u", "n", "d", " ",
      "i", "n", " ", "m", "o", "c", "k", " ", "c", "a", "c", "h", "e">>

StrGetFailed ==
    <<"r", "e", "d", "i", "s", " ", "g", "e", "t", " ", "o", "p", "e", "r",
      "a", "t", "i", "o", "n", " ", "f", "a", "i", "l", "e", "d", " ", "f",
      "o", "r", " ", "k", "e", "y", " ", "k">>

StrUnmarshalFailed ==
    <<"f", "a", "i", "l", "e", "d", " ", "t", "o", " ", "u", "n", "m", "a",
      "r", "s", "h", "a", "l", " ", "c", "a", "c", "h", "e", " ", "v", "a",
      "l", "u", "e", " ", "f", "o", "r", " ", "k", "e", "y", " ", "k">>

StrFailedToSet ==
    <<"f", "a", "i", "l", "e", "d", " ", "t", "o", " ", "s", "e", "t", " ",
      "c", "a", "c", "h", "e", " ", "v", "a", "l", "u", "e">>

\* err.Error() of the errors of the client
ErrorString(e) ==
    IF e = ErrKeyNotFound THEN StrKeyNotFound
    ELSE IF e = ErrStoreFailed THEN StrGetFailed
    ELSE <<>>

\* json.Marshal of a string value and of a number
MarshalString(v) == <<"\"", v, "\"">>
MarshalNumber(n) == <<n>>

\* json.Unmarshal(data, dest) with dest a *string
UnmarshalString(d) ==
    IF Len(d) = 3 /\ d[1] = "\"" /\ d[3] = "\""
    THEN [err |-> Nil, val |-> d[2]]
    ELSE [err |-> "json: cannot unmarshal", val |-> ""]

\* Service.Get with dest a *string
ServiceGetString(st, key, net) ==
    LET g == ClientGet(st, key, net) IN
    IF g.err # Nil THEN [err |-> ErrorString(g.err), val |-> ""]
    ELSE IF Len(g.val) >= Len(cachedErrorPrefix)
            /\ SubSeq(g.val, 1, Len(cachedErrorPrefix)) = cachedErrorPrefix
         THEN [err |-> SprintfCachedError(SubSeq(g.val, Len(cachedErrorPrefix) + 1,
                                                 Len(g.val))),
               val |-> ""]
    ELSE IF UnmarshalString(g.val).err # Nil THEN [err |-> StrUnmarshalFailed, val |-> ""]
    ELSE [err |-> <<>>, val |-> UnmarshalString(g.val).val]

\* Service.Set of a string value
ServiceSetString(st, key, v, duration, r, t, net) ==
    ClientSet(st, key, MarshalString(v), addJitter(duration, JitterPermille, r), t, net)

\* the test of line 121 on err.Error() = e: "panic" when the slice expression is
\* out of range
IsCachedError(e) ==
    IF Len(e) < Len(StrCachedErrorColon) THEN "panic"
    ELSE IF e = SprintfCachedError(SubSeq(e, Len(StrCachedErrorColon) + 1, Len(e))) THEN "true"
    ELSE "false"

GReturn(p, e, v) == [err |-> e, dest |-> v, n |-> 1]

\* lines 116-123: s.Get, return on a hit, the test for a cached error
GetOrSetGet(p, key, net) ==
    /\ gpc[p] = "idle"
    /\ gCalls < MaxCalls
    /\ gCalls' = gCalls + 1
    /\ LET g == ServiceGetString(cache, key, net) IN
       /\ gerr' = [gerr EXCEPT ![p] = g.err]
       /\ IF g.err = <<>>
          THEN /\ gret' = [gret EXCEPT ![p] = GReturn(p, <<>>, g.val)]
               /\ UNCHANGED gpc
          ELSE IF IsCachedError(g.err) = "true"
          THEN /\ gret' = [gret EXCEPT ![p] = GReturn(p, g.err, "")]
               /\ UNCHANGED gpc
          ELSE IF IsCachedError(g.err) = "panic"
          THEN /\ gpc' = [gpc EXCEPT ![p] = "panicked"]
               /\ UNCHANGED gret
          ELSE /\ gpc' = [gpc EXCEPT ![p] = "missed"]
               /\ UNCHANGED gret
    /\ gClean' = (gClean /\ net = "ok")
    /\ UNCHANGED <<cache, sfCall, gfetch, fetchCount>>

\* sfGroup.Do: the caller joins the call in flight for the key, or starts one
GetOrSetDo(p, key) ==
    /\ gpc[p] = "missed"
    /\ IF sfCall[key] # <<>>
       THEN /\ gpc' = [gpc EXCEPT ![p] = "waiting"]
            /\ UNCHANGED sfCall
       ELSE /\ gpc' = [gpc EXCEPT ![p] = "flight"]
            /\ sfCall' = [sfCall EXCEPT ![key] = <<p>>]
    /\ UNCHANGED <<cache, gerr, gfetch, gret, fetchCount, gCalls, gClean>>

\* line 128: fetchFunc(), which returns the value v or an error of text e
GetOrSetFetch(p, v, e) ==
    /\ gpc[p] = "flight"
    /\ gpc' = [gpc EXCEPT ![p] = "fetched"]
    /\ gfetch' = [gfetch EXCEPT ![p] = [err |-> e, val |-> IF e = <<>> THEN v ELSE ""]]
    /\ fetchCount' = fetchCount + 1
    /\ gClean' = (gClean /\ e = <<>>)
    /\ UNCHANGED <<cache, sfCall, gerr, gret, gCalls>>

\* a failed write of the fetched value is only logged
FlightResult_WriteOptional(st, key, f, r, t, net) ==
    IF f.err # <<>>
    THEN [err |-> f.err, val |-> "",
          cache |-> ClientSet(st, key, cachedErrorPrefix \o f.err, cachedErrorTTL, t,
                              net).store]
    ELSE LET w == ServiceSetString(st, key, f.val, GetOrSetDuration, r, t, net) IN
         IF w.err # Nil THEN [err |-> <<>>, val |-> f.val, cache |-> st]
         ELSE [err |-> <<>>, val |-> f.val, cache |-> w.store]

\* what the function given to sfGroup.Do returns (lines 129-149) and the cache
\* it leaves
FlightResult(st, key, f, r, t, net) ==
    IF f.err # <<>>
    THEN [err |-> f.err, val |-> "",
          cache |-> ClientSet(st, key, cachedErrorPrefix \o f.err, cachedErrorTTL, t,
                              net).store]
    ELSE LET w == ServiceSetString(st, key, f.val, GetOrSetDuration, r, t, net) IN
         IF w.err # Nil THEN [err |-> StrFailedToSet, val |-> "", cache |-> st]
         ELSE [err |-> <<>>, val |-> f.val, cache |-> w.store]

\* lines 152-171 for a result of sfGroup.Do
AfterDo(p, res) ==
    IF res.err # <<>> THEN GReturn(p, res.err, "")
    ELSE IF UnmarshalString(MarshalString(res.val)).err # Nil
         THEN GReturn(p, StrUnmarshalFailed, "")
    ELSE GReturn(p, <<>>, UnmarshalString(MarshalString(res.val)).val)

\* lines 129-149, the end of the call in flight and the return of every caller
\* that shares it
GetOrSetWrite(p, key, r, net) ==
    /\ gpc[p] = "fetched"
    /\ LET res == FlightResult(cache, key, gfetch[p], r, now, net)
           sharers == {p} \cup {q \in GProcs : gpc[q] = "waiting"}
       IN /\ cache' = res.cache
          /\ gret' = [q \in GProcs |-> IF q \in sharers THEN AfterDo(q, res) ELSE gret[q]]
          /\ gpc' = [q \in GProcs |-> IF q \in sharers THEN "idle" ELSE gpc[q]]
    /\ sfCall' = [sfCall EXCEPT ![key] = <<>>]
    /\ gfetch' = [gfetch EXCEPT ![p] = NoFetch]
    /\ gClean' = (gClean /\ net = "ok")
    /\ UNCHANGED <<gerr, fetchCount, gCalls>>

\* the store drops the key when its TTL has elapsed
CacheExpire(key) ==
    /\ cache[key] # <<>>
    /\ cache' = [cache EXCEPT ![key] = <<>>]
    /\ gClean' = FALSE
    /\ UNCHANGED <<sfCall, gpc, gerr, gfetch, gret, fetchCount, gCalls>>

\* another user of the service stores a number under the key: Service.Set
ServiceSetNumber(key, n, r) ==
    /\ cache' = ClientSet(cache, key, MarshalNumber(n),
                          addJitter(GetOrSetDuration, JitterPermille, r), now, "ok").store
    /\ gClean' = FALSE
    /\ UNCHANGED <<sfCall, gpc, gerr, gfetch, gret, fetchCount, gCalls>>

\* the OTP service and Service.Set stand still
GetOrSetOnly == UNCHANGED <<ovars, jvars, bvars, mvars, uvars>>

NextGetOrSet ==
    \/ \E p \in GProcs, k \in CacheKeys, net \in NetOutcomes :
          GetOrSetGet(p, k, net) /\ GetOrSetOnly
    \/ \E p \in GProcs, k \in CacheKeys : GetOrSetDo(p, k) /\ GetOrSetOnly
    \/ \E p \in GProcs, v \in FetchValues : GetOrSetFetch(p, v, <<>>) /\ GetOrSetOnly
    \/ \E p \in GProcs, e \in FetchErrors : GetOrSetFetch(p, "", e) /\ GetOrSetOnly
    \/ \E p \in GProcs, k \in CacheKeys, r \in RandHundredths, net \in NetOutcomes :
          GetOrSetWrite(p, k, r, net) /\ GetOrSetOnly
    \/ \E k \in CacheKeys : CacheExpire(k) /\ GetOrSetOnly
    \/ \E k \in CacheKeys, r \in RandHundredths :
          ServiceSetNumber(k, "42", r) /\ GetOrSetOnly

SpecGetOrSet == Init /\ [][NextGetOrSet]_vars

\* the operations of one RedisClient called from the goroutines of BProcs
SpecBreaker == Init /\ [][NextBreaker]_vars

SpecMetrics == Init /\ [][NextMetrics]_vars

\* the steps of one goroutine: its calls and what each call does
GoroutineStep(g) ==
    /\ \/ BeginCall(g)
       \/ CheckCircuit(g)
       \/ MoveToHalfOpen(g)
       \/ DeferredRUnlock(g)
       \/ \E out \in RedisOutcomes : NetworkCall(g, out)
       \/ CompleteFailed(g)
       \/ CompleteSucceeded(g)
    /\ BreakerOnly

\* the same operations when time passes, every goroutine that can take a step
\* is scheduled, and every goroutine calls again after its call has returned
SpecBreakerLive ==
    /\ Init
    /\ [][NextBreaker]_vars
    /\ WF_vars(BreakerTick /\ BreakerOnly)
    /\ \A g \in BProcs : WF_vars(GoroutineStep(g))

\* Service.Set up to its call of cacheClient.Set, on every duration of a bounded
\* set and every value of the random source
Durations == (0 - 2)..MaxDuration

InitJitter ==
    /\ InitOTP
    /\ InitNoGetOrSet
    /\ InitBreaker
    /\ InitMetrics
    /\ InitNoUpdate
    /\ jDuration \in Durations
    /\ jRand \in 0..99
    /\ jResult = <<>>

SetJitter ==
    /\ jResult = <<>>
    /\ jResult' = <<addJitter(jDuration, JitterPermille, jRand)>>
    /\ UNCHANGED <<jDuration, jRand>>

NextJitter == SetJitter /\ UNCHANGED <<ovars, gvars, bvars, mvars, uvars>>

SpecJitter == InitJitter /\ [][NextJitter]_vars

----------------------------------------------------------------------------
(* Properties *)

\* a VerifyOTP call returns in this step
Returns == last' # last

\* the VerifyOTP call of p returns from its switch on the Validate error in this step
Finishes(p) == pc[p] = "validated" /\ pc'[p] = "idle"

\* the call of Validate of p happens in this step
Validates(p) == pc[p] = "loaded" /\ pc'[p] = "validated"

\* C1: sequential calls, every store call succeeds: after a VerifyOTP that returned
\* success, every later VerifyOTP for the pair made before a new GenerateAndSaveOTP
\* returns the not-found error, whatever code it presents.
C1_SingleSuccess ==
    [][(verifiedOnce /\ Returns) => last'.ret = ErrOTPNotFound]_vars

\* a call made after a success has returned not-found
C1_Witness == verifiedOnce /\ last.ret = ErrOTPNotFound

\* C2: for one generated code and concurrent VerifyOTP calls on its pair, at most one
\* call returns success.
C2_AtMostOneSuccess == genCount = 1 => nSuccess <= 1

\* C3: whenever VerifyOTP returns success the record of the pair is absent from the
\* store at the return, also when the Delete of the success branch fails.
C3_SuccessPurges ==
    [][\A p \in Procs : (Finishes(p) /\ verr[p] = Nil) => store'[ArgKey(p)] = <<>>]_vars

C5_ExhaustionTerminal ==
    [][\A p \in Procs : (Finishes(p) /\ lateExh[p]) => verr[p] # Nil]_vars

C7_ExpiryBoundary ==
    \A p \in Procs : (pc[p] = "validated" /\ now = otp[p][1].ExpiresAt)
                        => verr[p] = ErrOTPExpired

\* C8: sequential calls, every store call succeeds: while no new record is generated
\* the stored attempts never decreases, and each Validate that reaches the code
\* comparison (not expired, not used, attempts < maxAttempts) raises attempts by
\* exactly one.
C8_AttemptMonotonic ==
    [][/\ \A k \in Keys : (store[k] # <<>> /\ store'[k] # <<>> /\ genCount' = genCount)
                             => StoredOTP(store', k).Attempts >= StoredOTP(store, k).Attempts
       /\ \A p \in Procs :
            (Validates(p) /\ ~After(now, otp[p][1].ExpiresAt) /\ ~otp[p][1].Used
               /\ otp[p][1].Attempts < MaxAttempts)
               => otp'[p][1].Attempts = otp[p][1].Attempts + 1]_vars

\* two wrong codes have been counted in the stored record
C8_Witness == \E k \in Keys : store[k] # <<>> /\ StoredOTP(store, k).Attempts = 2

\* C9: whenever VerifyOTP returns invalid-code the stored record has the attempts of
\* before the call plus one, also when the store write fails or is rejected.
C9_InvalidIsCounted ==
    [][\A p \in Procs :
         (Finishes(p) /\ verr[p] = ErrInvalidOTP)
            => /\ store'[ArgKey(p)] # <<>>
               /\ StoredOTP(store', ArgKey(p)).Attempts = otp[p][1].Attempts]_vars

\* C10: VerifyOTP returns not-found only when the record is absent from the store; a
\* load that fails because the store is unavailable returns another error.
C10_NotFoundMeansAbsent ==
    [][(Returns /\ last'.ret = ErrOTPNotFound) => store[last'.key] = <<>>]_vars

\* C11: a GenerateAndSaveOTP that succeeds leaves under the key of its pair one
\* record, with the code it returned, zero attempts and used = false, whatever
\* was stored for the pair before, and leaves the records of every other pair as
\* they were; a later VerifyOTP for that pair succeeds only with the returned code.
C11_OverwriteUniqueness ==
    [][/\ genCount' = genCount + 1 =>
            /\ genOver' # <<>>
            /\ store'[genOver'[1].key] # <<>>
            /\ LET o == StoredOTP(store', genOver'[1].key) IN
                  /\ GenerateOTPKey(o.Type, o.Identifier) = genOver'[1].key
                  /\ o.Code = genOver'[1].code
                  /\ o.Attempts = 0
                  /\ o.Used = FALSE
            /\ \A k \in Keys \ {genOver'[1].key} : store'[k] = store[k]
       /\ (Finishes("p1") /\ verr["p1"] = Nil /\ genOver # <<>>
              /\ ArgKey("p1") = genOver[1].key)
            => args["p1"].code = genOver[1].code]_vars

\* a record with a counted attempt and another code was replaced while another
\* pair held a record
C11_Witness ==
    /\ genOver # <<>>
    /\ genOver[1].before # <<>>
    /\ UnmarshalOTP(UnmarshalBytes(genOver[1].before[1].data)).Attempts >= 1
    /\ UnmarshalOTP(UnmarshalBytes(genOver[1].before[1].data)).Code # genOver[1].code
    /\ store[genOver[1].key] # <<>>
    /\ StoredOTP(store, genOver[1].key).Attempts = 0
    /\ StoredOTP(store, genOver[1].key).Code = genOver[1].code
    /\ \E k \in Keys \ {genOver[1].key} : store[k] # <<>>

\* C12: the key of a record saved by GenerateAndSaveOTP lives for the expiry
\* window of the purpose, so the passage of time removes a record from the store
\* only at or after its expires_at.
C12_StoredForWindow ==
    [][\A k \in Keys :
          (now' # now /\ store[k] # <<>> /\ store'[k] = <<>>)
             => now' >= StoredOTP(store, k).ExpiresAt]_vars

\* C16: the duration Service.Set passes to the client lies between 0.9 and 1.1
\* times a positive duration argument, and is the argument itself when that is
\* zero or negative.
C16_JitterBounds ==
    jResult # <<>> =>
        IF jDuration > 0
        THEN 10 * jResult[1] >= 9 * jDuration /\ 10 * jResult[1] <= 11 * jDuration
        ELSE jResult[1] = jDuration

\* a positive duration was shortened by the jitter
C16_Witness == jResult # <<>> /\ jDuration > 0 /\ jResult[1] < jDuration

\* the text Get returns for a negative entry
IsNegativeText(e) == \E m \in FetchErrors : e = SprintfCachedError(m)

\* C13: when every caller's GetOrSet found the key absent, no fetch or store call
\* failed and nothing else touched the key, fetchFunc has been invoked at most
\* once and the callers that have returned hold the same successfully fetched
\* value.
C13_Coalescing ==
    (gClean /\ \A p \in GProcs : gerr[p] = StrKeyNotFound) =>
        /\ fetchCount <= 1
        /\ \A p, q \in GProcs :
              (gpc[p] = "idle" /\ gpc[q] = "idle") =>
                  (gret[p].err = <<>> /\ gret[p].dest = gret[q].dest)

\* C14: a GetOrSet whose cache read finds a negative entry returns the cached
\* error at once: it neither enters the single-flight group nor fetches.
C14_NegativeCaching ==
    \A p \in GProcs :
        IsNegativeText(gerr[p]) => (gpc[p] = "idle" /\ gret[p].err = gerr[p])

\* C15: a GetOrSet whose cache read finds a payload it cannot decode returns
\* the decode error at once: it neither fetches nor writes the entry.
C15_DecodeErrorNotMiss ==
    \A p \in GProcs :
        gerr[p] = StrUnmarshalFailed => (gpc[p] = "idle" /\ gret[p].err = gerr[p])

\* a goroutine leaves the position pos of its call
Leaves(g, pos) == bpc[g] = pos /\ bpc'[g] # pos

\* C17: the fifth of five failing calls completed in a row, counted from a
\* closed breaker with counter zero, leaves the breaker Open; a call that finds
\* the breaker Open before the cool-down has elapsed is short-circuited, makes no
\* network call and returns the breaker-open error.
C17_BreakerOpens ==
    [][/\ (consec = CircuitBreakerThreshold - 1 /\ consec' = CircuitBreakerThreshold)
            => circuitState' = CircuitOpen
       /\ \A g \in BProcs :
             /\ (Leaves(g, "rlocked") /\ circuitState = CircuitOpen
                    /\ sinceLastFailure <= CircuitBreakerTimeout)
                  => bpc'[g] = "shorted"
             /\ Leaves(g, "shorted") => (bpc'[g] = "idle" /\ blast'.ret = ErrCircuitOpen)]_vars

\* five failures in a row have opened the breaker and a call was short-circuited
C17_Witness ==
    /\ consec = CircuitBreakerThreshold
    /\ circuitState = CircuitOpen
    /\ blast.ret = ErrCircuitOpen
    /\ blast.from = CircuitOpen
    /\ ~crashed

\* C18: a call that finds the breaker Open after the cool-down moves it to
\* Half-Open and goes on to its network call as the probe; a probe that succeeds
\* returns with the breaker Closed and the counter at zero.
C18_ProbeAfterCoolDown ==
    [][\A g \in BProcs :
          /\ (Leaves(g, "rlocked") /\ circuitState = CircuitOpen
                 /\ sinceLastFailure > CircuitBreakerTimeout)
               => (bpc'[g] = "upgrade" /\ ~crashed')
          /\ (Leaves(g, "upgrade") /\ circuitState = CircuitOpen)
               => (bpc'[g] = "unlocked" /\ circuitState' = CircuitHalfOpen)
          /\ Leaves(g, "unlocked") => (bpc'[g] = "admitted" /\ ~crashed')
          /\ Leaves(g, "succeeded")
               => (bpc'[g] = "idle" /\ circuitState' = CircuitClosed /\ failureCount' = 0)]_vars

\* C19: once the store has recovered, an Open breaker is Closed again at some
\* later time, whatever the rate at which the goroutines keep calling.
C19_EventuallyCloses == (healthy /\ circuitState = CircuitOpen) ~> (circuitState = CircuitClosed)

\* C20: a call admitted to the network that fails while the breaker is
\* Half-Open leaves the breaker Open, the failure counter at zero and the time of
\* the last failure at the time of that failure.
C20_HalfOpenFailure ==
    [][\A g \in BProcs :
          (Leaves(g, "failed") /\ circuitState = CircuitHalfOpen)
             => /\ circuitState' = CircuitOpen
                /\ failureCount' = 0
                /\ sinceLastFailure' = 0]_vars

\* a probe has just failed
C20_Witness ==
    /\ blast.ret = ErrNetwork
    /\ blast.from = CircuitHalfOpen
    /\ circuitState = CircuitOpen
    /\ failureCount = 0
    /\ sinceLastFailure = 0
    /\ ~crashed

\* C21: every successful call sets the failure counter to zero, and the breaker
\* moves from Closed to Open only with the last of CircuitBreakerThreshold
\* failing calls completed with no successful call between them.
C21_SlidingForgiveness ==
    [][/\ \A g \in BProcs : Leaves(g, "succeeded") => failureCount' = 0
       /\ (circuitState = CircuitClosed /\ circuitState' = CircuitOpen)
            => (consec' = CircuitBreakerThreshold /\ blast'.ret \notin {Nil, RedisNil})
       /\ (circuitState = CircuitClosed /\ consec' < CircuitBreakerThreshold)
            => circuitState' = CircuitClosed]_vars

\* a success has just wiped four counted failures off a Closed breaker
C21_Witness ==
    /\ blast.ret = Nil
    /\ blast.from = CircuitClosed
    /\ blast.count = CircuitBreakerThreshold - 1
    /\ circuitState = CircuitClosed
    /\ failureCount = 0
    /\ ~crashed

\* C22: a Get whose network call answered redis.Nil returns the not-found
\* error, which is not the error of a failed store call; it does not raise the
\* failure counter and it does not open the breaker.
C22_MissIsNotAFault ==
    [][\A g \in BProcs :
          (berr[g] = RedisNil /\ bpc'[g] = "idle")
             => /\ blast'.ret = RedisNil
                /\ blast'.out = ErrKeyNotFound
                /\ blast'.out # GetReturn("failed")
                /\ failureCount' <= failureCount
                /\ circuitState = CircuitClosed => circuitState' = CircuitClosed]_vars

\* a miss has just completed on a Closed breaker that had counted failures
C22_Witness ==
    /\ blast.ret = RedisNil
    /\ blast.from = CircuitClosed
    /\ blast.count > 0
    /\ circuitState = CircuitClosed
    /\ ~crashed

\* C26: the breaker leaves Open only for Half-Open.
C26_NoOpenToClosed ==
    [][circuitState = CircuitOpen => circuitState' \in {CircuitOpen, CircuitHalfOpen}]_vars

\* C30: no RUnlock of isCircuitOpen releases a read lock that is not held, and
\* the mutex counts no reader when no goroutine is inside isCircuitOpen.
C30_LockDiscipline ==
    /\ ~crashed
    /\ readerCount >= 0
    /\ (\A g \in BProcs : bpc[g] \notin {"rlocked", "upgrade", "unlocked"}) => readerCount = 0

\* C27: with no GenerateAndSaveOTP in the step, the attempts value of a record
\* that stays in the store does not decrease.
C27_AttemptsMonotone ==
    [][\A k \in Keys :
          (store[k] # <<>> /\ store'[k] # <<>> /\ genCount' = genCount)
             => StoredOTP(store', k).Attempts >= StoredOTP(store, k).Attempts]_vars

\* C29: after a VerifyOTP has succeeded and deleted the record, a key that is
\* absent from the store becomes present only by a GenerateAndSaveOTP.
C29_NoResurrection ==
    [][\A k \in Keys :
          (nSuccess >= 1 /\ store[k] = <<>> /\ store'[k] # <<>>)
             => genCount' = genCount + 1]_vars

\* C28: for one generated record, at most MaxAttempts calls of VerifyOTP get
\* their presented code compared with the stored code.
C28_LimitedComparisons == nCompared <= MaxAttempts

\* C23: sequential calls before expires_at, every store call succeeds. After a
\* generate that yielded code C: a first VerifyOTP with another code returns
\* invalid-code and leaves the record stored with attempts 1; a second one with C
\* returns success on a validated record with attempts 2 and used, and leaves no
\* record; a third one with C returns not-found.
C23_Scenario ==
    (genCount >= 1 /\ now < genExp)
       => /\ (Len(scene) >= 1 /\ scene[1].wrong)
             => (scene[1].ret = ErrInvalidOTP /\ scene[1].stored = 1)
          /\ (Len(scene) >= 2 /\ scene[1].wrong /\ ~scene[2].wrong)
             => /\ scene[2].ret = "success"
                /\ scene[2].attempts = 2
                /\ scene[2].used
                /\ scene[2].stored = -1
          /\ (Len(scene) >= 3 /\ scene[1].wrong /\ ~scene[2].wrong /\ ~scene[3].wrong)
             => scene[3].ret = ErrOTPNotFound

\* the purposes Generate has a case for
SupportedTypes == {OTPTypePasswordReset, OTPTypeEmailVerification, OTPTypePhoneVerification}

\* C24: a GenerateAndSaveOTP for a purpose other than password_reset,
\* email_verification and phone_verification returns the unsupported-type error
\* and an empty code and leaves the store as it was; no such call stores a record.
C24_UnknownPurpose ==
    /\ genOver # <<>> => genOver[1].key[2] \in SupportedTypes
    /\ \A k \in Keys : store[k] # <<>> => k[2] \in SupportedTypes
    /\ genFail # <<>>
          => /\ genFail[1].otpType \notin SupportedTypes
             /\ genFail[1].err = ErrUnsupportedType
             /\ genFail[1].code = ""
             /\ genFail[1].same

\* a request for password_reset_phone failed while records were stored, and
\* records are stored
C24_Witness ==
    /\ genFail # <<>>
    /\ genFail[1].otpType = OTPTypePasswordResetPhone
    /\ genFail[1].had
    /\ \E k \in Keys : store[k] # <<>> /\ StoredOTP(store, k).Attempts >= 1

\* C25: between two resets the request counter is the number of calls made and
\* the error counter is the number of calls that ended in an error other than
\* key-not-found.
C25_MetricsAccounting ==
    /\ requests = callsSince
    /\ errors = failedSince

\* C31: the completion of a call that was short-circuited by the Open breaker
\* leaves the breaker state, the failure counter and the last-failure time as
\* they were.
C31_ShortCircuitFrame ==
    [][\A g \in BProcs :
          (bpc[g] = "shorted" /\ bpc'[g] = "idle")
             => UNCHANGED <<circuitState, failureCount, sinceLastFailure>>]_vars

\* C36: a Closed breaker has counted fewer failures than the threshold.
C36_ClosedBelowThreshold ==
    circuitState = CircuitClosed => failureCount < CircuitBreakerThreshold

\* a Closed breaker one failure short of the threshold, after a call that was
\* short-circuited by the Open breaker, with a failed call about to complete
C36_Witness ==
    /\ circuitState = CircuitClosed
    /\ failureCount = CircuitBreakerThreshold - 1
    /\ blast.from = CircuitClosed
    /\ blast.count = CircuitBreakerThreshold - 2
    /\ \E g \in BProcs : bpc[g] = "failed"
    /\ ~crashed

\* C32: a Validate that returns Expired, AlreadyUsed, or TooManyAttempts on a
\* record that had attempts >= MaxAttempts at entry leaves the record as it was;
\* a record whose expires_at has passed yields Expired whatever its used and
\* attempts, an unexpired used record yields AlreadyUsed whatever its attempts,
\* and an unexpired unused exhausted record yields TooManyAttempts.
C32_TerminalFrame ==
    [][Validates("p1")
          => LET o == otp["p1"][1]
                 o2 == otp'["p1"][1]
                 e == verr'["p1"]
             IN /\ (e \in {ErrOTPExpired, ErrOTPAlreadyUsed}
                       \/ (e = ErrTooManyAttempts /\ o.Attempts >= MaxAttempts))
                      => (o2.Attempts = o.Attempts /\ o2.Used = o.Used /\ o2 = o)
                /\ now > o.ExpiresAt => e = ErrOTPExpired
                /\ (now < o.ExpiresAt /\ o.Used) => e = ErrOTPAlreadyUsed
                /\ (now < o.ExpiresAt /\ ~o.Used /\ o.Attempts >= MaxAttempts)
                      => e = ErrTooManyAttempts]_vars

\* Validate has answered Expired for a record that is expired, used and exhausted
C32_Witness ==
    /\ pc["p1"] = "validated"
    /\ verr["p1"] = ErrOTPExpired
    /\ now > otp["p1"][1].ExpiresAt
    /\ otp["p1"][1].Used
    /\ otp["p1"][1].Attempts >= MaxAttempts

\* C33: Validate on a record with now before expires_at, used = false and
\* attempts = a < MaxAttempts: a wrong code sets attempts to a + 1, leaves used
\* false and returns InvalidCode when a + 1 < MaxAttempts and TooManyAttempts
\* otherwise; the stored code sets attempts to a + 1 and used to true and
\* returns success.
C33_DecisionTable ==
    [][(Validates("p1") /\ now < otp["p1"][1].ExpiresAt /\ ~otp["p1"][1].Used
           /\ otp["p1"][1].Attempts < MaxAttempts)
          => LET o == otp["p1"][1]
                 o2 == otp'["p1"][1]
                 e == verr'["p1"]
             IN /\ o2 = [o EXCEPT !.Attempts = o.Attempts + 1,
                                  !.Used = (args["p1"].code = o.Code)]
                /\ e = IF args["p1"].code = o.Code THEN Nil
                       ELSE IF o.Attempts + 1 < MaxAttempts THEN ErrInvalidOTP
                       ELSE ErrTooManyAttempts]_vars

\* the last allowed wrong code has been counted and answered TooManyAttempts
C33_Witness ==
    /\ pc["p1"] = "validated"
    /\ verr["p1"] = ErrTooManyAttempts
    /\ now < otp["p1"][1].ExpiresAt
    /\ ~otp["p1"][1].Used
    /\ otp["p1"][1].Attempts = MaxAttempts
    /\ args["p1"].code # otp["p1"][1].Code

\* C34: every record in the store has used = false, and no VerifyOTP returns
\* the already-used error.
C34_StoredUnused ==
    /\ \A k \in Keys : store[k] # <<>> => ~StoredOTP(store, k).Used
    /\ \A p \in Procs : otp[p] # <<>> /\ otp[p][1].Used => verr[p] = Nil
    /\ \A p \in Procs : verr[p] # ErrOTPAlreadyUsed
    /\ last.ret # ErrOTPAlreadyUsed

\* a VerifyOTP has returned success, its delete failed, and the record it
\* validated is still stored, unused
C34_Witness ==
    /\ last.ret = "success"
    /\ nSuccess >= 1
    /\ store[last.key] # <<>>
    /\ ~StoredOTP(store, last.key).Used
    /\ StoredOTP(store, last.key).Attempts >= 1

\* C35: every record, stored or held by a caller, has 0 <= attempts <=
\* MaxAttempts, and every stored record has attempts < MaxAttempts.
C35_AttemptsBounds ==
    /\ \A p \in Procs :
          otp[p] # <<>> => (0 <= otp[p][1].Attempts /\ otp[p][1].Attempts <= MaxAttempts)
    /\ \A k \in Keys :
          store[k] # <<>>
             => (0 <= StoredOTP(store, k).Attempts /\ StoredOTP(store, k).Attempts < MaxAttempts)

\* a caller holds a record that Validate has taken to MaxAttempts while the
\* store holds it with MaxAttempts - 1, written by an earlier VerifyOTP
C35_Witness ==
    \E p \in Procs :
       /\ pc[p] = "validated"
       /\ verr[p] = ErrTooManyAttempts
       /\ otp[p][1].Attempts = MaxAttempts
       /\ store[ArgKey(p)] # <<>>
       /\ StoredOTP(store, ArgKey(p)).Attempts = MaxAttempts - 1

\* C37: every store call succeeds. The UpdateOTP of a VerifyOTP whose record
\* has expires_at - now <= 0 returns an error and leaves the store unchanged;
\* with expires_at - now > 0 it stores the caller's record under its key alone,
\* with a TTL that is the jittered remaining lifetime, within 10% of it.
C37_UpdateRemainingLifetime ==
    [][\A p \in Procs :
          (Finishes(p) /\ verr[p] = ErrInvalidOTP)
             => LET o == otp[p][1]
                    key == GenerateOTPKey(o.Type, o.Identifier)
                    remaining == o.ExpiresAt - now
                IN IF remaining <= 0
                   THEN /\ store' = store
                        /\ \A r \in RandHundredths :
                              UpdateOTP(store, o, r, now, "ok").err = ErrUpdateExpired
                   ELSE /\ store'[key] # <<>>
                        /\ StoredOTP(store', key) = o
                        /\ \E r \in RandHundredths :
                              store'[key][1].exp = now + addJitter(remaining, JitterPermille, r)
                        /\ 10 * (store'[key][1].exp - now) <= 11 * remaining
                        /\ 10 * (store'[key][1].exp - now) >= 9 * remaining
                        /\ \A k \in Keys \ {key} : store'[k] = store[k]]_vars

\* a VerifyOTP has returned invalid-code and the only record generated is still
\* stored with attempts 0: its UpdateOTP was rejected
C37_Witness ==
    /\ last.ret = ErrInvalidOTP
    /\ genCount = 1
    /\ Idle(Procs)
    /\ store[last.key] # <<>>
    /\ StoredOTP(store, last.key).Attempts = 0
    /\ now >= StoredOTP(store, last.key).ExpiresAt

\* C38: an Update of a key that is not in the store returns an error and
\* creates no key; an Update of a key that is in the store, when the store call
\* succeeds, replaces the value and keeps the expiry of the key.
C38_UpdateExistingOnly ==
    [][uret'.seq # uret.seq
          => LET key == uret'.key IN
             IF store[key] = <<>>
             THEN uret'.err # Nil /\ store'[key] = <<>>
             ELSE uret'.err = Nil
                     => /\ store'[key] # <<>>
                        /\ store'[key][1].exp = store[key][1].exp
                        /\ \E v \in UpdateValues : store'[key][1].data = MarshalBytes(v)]_vars

\* C39: when the call in flight ends after a fetch that succeeded, either the
\* fetched value is in the cache and every caller of the flight returns it
\* without error, or the cache is as it was and every caller of the flight
\* returns the failed-to-set error with its destination unmodified.
C39_WriteFailure ==
    [][\A p \in GProcs, k \in CacheKeys :
          (gpc[p] = "fetched" /\ gpc'[p] = "idle" /\ sfCall[k] = <<p>> /\ gfetch[p].err = <<>>)
             => LET sharers == {p} \cup {q \in GProcs : gpc[q] = "waiting"} IN
                \/ /\ cache'[k] # <<>>
                   /\ cache'[k][1].data = MarshalString(gfetch[p].val)
                   /\ \A q \in sharers :
                         gret'[q].err = <<>> /\ gret'[q].dest = gfetch[p].val
                \/ /\ cache' = cache
                   /\ \A q \in sharers :
                         gret'[q].err = StrFailedToSet /\ gret'[q].dest = ""]_vars

\* one fetch succeeded, its write failed, and both callers of the flight have
\* returned the failed-to-set error; the cache holds nothing
C39_Witness ==
    /\ fetchCount = 1
    /\ \A p \in GProcs :
          gpc[p] = "idle" /\ gret[p].n = 1 /\ gret[p].err = StrFailedToSet /\ gret[p].dest = ""
    /\ \A k \in CacheKeys : cache[k] = <<>>

====
